---- MODULE Spec2Model ----
(***************************************************************************)
(* Resumable fetch-transform-persist pipeline of the Jira scraper:         *)
(*   - JiraClient._make_request   (src/src/jira_client.py)                 *)
(*   - StateManager               (src/src/state_manager.py)               *)
(*   - JiraScraper.scrape_project / scrape_all  (src/src/scraper.py)       *)
(*   - DataTransformer            (src/src/data_transformer.py)            *)
(*   - main                       (main.py)                                *)
(* SpecExec is one call of the request executor; Spec is the orchestrator  *)
(* with the checkpoint store, the output stream and process kills;         *)
(* SpecFaults is one run in which writing the output or the checkpoint     *)
(* can fail; SpecCli is a sequence of invocations with the reset flags;    *)
(* SpecStore is a sequence of calls of the StateManager methods;           *)
(* SpecTransform is one call of DataTransformer.transform_issue;           *)
(* SpecRemote is one run against a tracker that answers as it likes, and   *)
(* SpecRemoteLive is such a run in which every enabled step is taken.      *)
(***************************************************************************)
EXTENDS Integers, Sequences, FiniteSets, TLC

\* ------------------------------------------------------------------ bounds
\* Largest max_retries a call of the executor is configured with.
MaxRetriesBound == 4
\* Largest retry_delay (base delay, in seconds) of a call.
MaxBaseDelay == 2
\* Number of issues of the first project on the remote tracker.
MaxIssues == 3
\* Largest max_results_per_page and batch_size the scraper is built with.
MaxPageSize == 2
MaxBatchSize == 2
\* Number of processes (the first run and the runs after a kill or an exit).
MaxRuns == 2
\* Number of issue keys of one project the calls of StateManager are made
\* with.
MaxStoreKeys == 2
\* Largest number of comments in the comments payload and in the comment
\* list embedded in an issue.
MaxComments == 2

VARIABLES
    \* ---- one call of JiraClient._make_request
    max_retries,        \* self.max_retries
    retry_delay,        \* self.retry_delay
    rate_limit_delay,   \* self.rate_limit_delay
    attempt,            \* the loop index of `for attempt in range(max_retries)`
    epc,                \* "loop" | "returned" | "raised"
    result,             \* "pending" | "data" | "None" | "exception"
    resps,              \* the outcomes of the requests issued so far, in order
    sleeps,             \* the durations given to time.sleep so far, in order
    \* ---- the scraper process (JiraScraper, StateManager, the files)
    max_results_per_page, \* self.max_results_per_page
    batch_size,         \* self.batch_size
    nofields,           \* the remote issues that carry no `fields` mapping
    run,                \* the number of the running process
    args,               \* the parsed command line of the running process
    pc,                 \* the position of the process in scrape_all
    pidx,               \* index in self.projects of the project being scraped
    state,              \* StateManager.state, the in-memory checkpoint
    disk,               \* the checkpoint document scrape_state.json
    output,             \* the keys of the records in the output JSONL file
    loc,                \* the local variables of scrape_project
    stats,              \* the stats dictionary of scrape_all
    hist,               \* what has happened so far (history, not program state)
    \* ---- one call of DataTransformer.transform_issue
    issue,              \* the raw issue given to transform_issue
    comments_data,      \* the response of the comments endpoint
    tpc,                \* "call" | "returned"
    treturn             \* what transform_issue returned

svars == <<max_results_per_page, batch_size, nofields, run, args, pc, pidx,
           state, disk, output, loc, stats, hist>>

tvars == <<issue, comments_data, tpc, treturn>>

evars == <<max_retries, retry_delay, rate_limit_delay, attempt, epc, result,
           resps, sleeps>>

\* ------------------------------------------------------- request executor
Pow2(n) == 2 ^ n

\* What one session.request can come to: an HTTP response, or an exception
\* raised by the transport.
Statuses == {200, 301, 404, 429, 503}
HttpOutcomes ==
    {[kind |-> "http", status |-> s, body |-> b, ra |-> h] :
        s \in Statuses, b \in {"valid", "null", "unparsable"},
        h \in {"absent", "2", "unparsable"}}
Outcomes ==
    {o \in HttpOutcomes :
        /\ (o.status # 200 => o.body = "valid")
        /\ (o.status # 429 => o.ra = "absent")}
    \cup {[kind |-> k, status |-> 0, body |-> "valid", ra |-> "absent"] :
            k \in {"Timeout", "ConnectionError", "OtherException"}}

\* The results of one pass through the loop body.
Continue(d) == [ctl |-> "continue", sleep |-> <<d>>, value |-> "pending"]
Return(v) == [ctl |-> "return", sleep |-> <<>>, value |-> v]
Raise(e) == [ctl |-> "raise", sleep |-> <<>>, value |-> e]

\* float(response.headers.get('Retry-After', self.rate_limit_delay))
RetryAfter(o) ==
    IF o.ra = "absent" THEN rate_limit_delay ELSE 2

\* retry_delay * (2 ** attempt)
BackoffDelayLinear(a) == retry_delay * (a + 1)
BackoffDelay(a) == retry_delay * Pow2(a)

\* `if attempt < self.max_retries - 1`: sleep and go on, else give up.
BackoffOrGiveUpAlwaysSleeps(a) ==
    IF a < max_retries THEN Continue(BackoffDelay(a)) ELSE Return("None")
BackoffOrGiveUp(a) ==
    IF a < max_retries - 1 THEN Continue(BackoffDelay(a)) ELSE Return("None")

\* The 4xx branch.
ClientErrorRetried(a) == BackoffOrGiveUp(a)
ClientError(a) == Return("None")

\* The 200 branch: response.json(), with its own except ValueError.
Success(o) ==
    IF o.body = "valid" THEN Return("data") ELSE Return("None")

\* The try block of the loop body, given the outcome of session.request.
TryBody(o, a) ==
    IF o.kind # "http" THEN Raise(o.kind)
    ELSE IF o.status = 429
         THEN IF o.ra = "unparsable" THEN Raise("ValueError")
              ELSE Continue(RetryAfter(o))
    ELSE IF o.status >= 500 THEN BackoffOrGiveUp(a)
    ELSE IF 400 <= o.status /\ o.status < 500 THEN ClientError(a)
    ELSE IF o.status = 200 THEN Success(o)
    ELSE Return("None")

\* The except clauses of the loop body.
HandlersNoCatchAll(r, a) ==
    IF r.ctl # "raise" THEN r
    ELSE IF r.value \in {"Timeout", "ConnectionError"} THEN BackoffOrGiveUp(a)
    ELSE r
Handlers(r, a) ==
    IF r.ctl # "raise" THEN r
    ELSE IF r.value = "Timeout" THEN BackoffOrGiveUp(a)
    ELSE IF r.value = "ConnectionError" THEN BackoffOrGiveUp(a)
    ELSE Return("None")

LoopBody(o, a) == Handlers(TryBody(o, a), a)

\* ------------------------------------------------------- the remote tracker
\* self.projects, in the order scrape_all walks them.
ProjectList == <<"A", "B">>
ProjSet == {ProjectList[i] : i \in 1..Len(ProjectList)}
ProjNum(p) == IF p = "A" THEN 1 ELSE 2
\* The key of the issue at position i (1-based) of project p's issue list.
Key(p, i) == ProjNum(p) * 10 + i
NumIssues(p) == IF p = "A" THEN MaxIssues ELSE 1
\* The issue list of a project, in the order of the search (created DESC).
Remote(p) == [i \in 1..NumIssues(p) |-> Key(p, i)]
AllKeys == UNION {{Key(p, i) : i \in 1..NumIssues(p)} : p \in ProjSet}
Min(a, b) == IF a < b THEN a ELSE b
Range(q) == {q[i] : i \in 1..Len(q)}

\* The 'issues' of a successful search_issues(project, start_at, max_results).
SearchIssues(p, start_at, max_results) ==
    SubSeq(Remote(p), start_at + 1, Min(start_at + max_results, NumIssues(p)))
\* The 'total' of a successful search.
SearchTotal(p) == NumIssues(p)

\* ---------------------------------------------------------- StateManager
EmptyMap == [x \in {} |-> <<>>]
Put(f, k, v) == [x \in DOMAIN f \cup {k} |-> IF x = k THEN v ELSE f[x]]

default_state ==
    [projects |-> EmptyMap, processed_issues |-> EmptyMap,
     last_updated |-> "None"]

NoFile == [kind |-> "absent", doc |-> default_state]
\* The file right after open(self.state_file, 'w'): empty, and holding part
\* of the text until json.dump and the close have run.
TruncatedFile == [kind |-> "truncated", doc |-> default_state]
CompleteFile(st) == [kind |-> "doc", doc |-> st]

\* _load_state, the body of its try: open and json.load of a file that
\* exists. An empty or partly written file makes json.load raise.
load_try(d) ==
    IF d.kind = "doc" THEN Return(d.doc) ELSE Raise("JSONDecodeError")

\* _load_state, `except Exception`: a warning, and the default state.
load_exceptReraises(raised) == raised
load_except(raised) == Return(default_state)

\* _load_state as a whole: what it returns, or what it raises.
load_outcome(d) ==
    IF d.kind = "absent" THEN Return(default_state)
    ELSE LET r == load_try(d) IN
           IF r.ctl = "raise" THEN load_except(r) ELSE r

\* The state _load_state returns.
load_state(d) == load_outcome(d).value

get_processed_issues(st, project) ==
    IF project \in DOMAIN st.processed_issues
    THEN Range(st.processed_issues[project]) ELSE {}

mark_issue_processedAppends(st, project, issue_key) ==
    LET cur == IF project \in DOMAIN st.processed_issues
               THEN st.processed_issues[project] ELSE <<>>
    IN [st EXCEPT !.processed_issues = Put(@, project, Append(cur, issue_key))]
mark_issue_processed(st, project, issue_key) ==
    LET cur == IF project \in DOMAIN st.processed_issues
               THEN st.processed_issues[project] ELSE <<>>
    IN [st EXCEPT !.processed_issues =
            Put(@, project, IF issue_key \in Range(cur) THEN cur
                            ELSE Append(cur, issue_key))]

\* progress.get('start_at', 0) of get_project_progress(project)
\* self.state.get('projects', {}).get(project, {})
get_project_progress(st, project) ==
    IF project \in DOMAIN st.projects THEN st.projects[project] ELSE EmptyMap

\* scrape_project: progress.get('start_at', 0)
progress_start_atDefaultOne(st, project) ==
    LET progress == get_project_progress(st, project) IN
      IF "start_at" \in DOMAIN progress THEN progress.start_at ELSE 1
progress_start_at(st, project) ==
    LET progress == get_project_progress(st, project) IN
      IF "start_at" \in DOMAIN progress THEN progress.start_at ELSE 0

update_project_progress(st, project, start_at, last_issue_key) ==
    [st EXCEPT !.projects =
        Put(@, project, [start_at |-> start_at,
                         last_issue_key |-> last_issue_key])]

\* Without(f, k): the mapping f after `del f[k]`.
Without(f, k) == [x \in DOMAIN f \ {k} |-> f[x]]

\* reset_project: both entries of the project are deleted, when present.
reset_projectProgressOnly(st, project) ==
    [st EXCEPT !.projects = Without(@, project)]
reset_project(st, project) ==
    [st EXCEPT !.projects = Without(@, project),
               !.processed_issues = Without(@, project)]

\* save_state, first half: the timestamp is set and the file is opened for
\* writing, which empties it.
save_state_stamp(st) == [st EXCEPT !.last_updated = "utcnow"]
\* save_state, second half: json.dump has written the document.
save_state_dump(st) == CompleteFile(st)

\* ------------------------------------------------------------ JiraScraper
MaxConsecutiveFailures == 5

Project == ProjectList[pidx]

\* The locals of scrape_project as they are when the call starts.
FreshLocals ==
    [processed_issues |-> {}, start_at |-> 0, current_start |-> 0,
     total_issues |-> 0, consecutive_failures |-> 0, issues |-> <<>>,
     idx |-> 0, batch |-> <<>>, total_scraped |-> 0, issue_key |-> 0]

\* History. failed: the projects of this run that ended in Failed (no
\* project info, no count, pagination aborted); fetched, written and
\* first_page: the keys whose comments were fetched, the keys appended to
\* the output and the offset of the first page request of the current
\* scrape_project call; lost: a kill has discarded an unflushed batch.
\* raised: the projects of this run whose scrape_project raised;
\* save_failed: the projects of this run in which a save_state met an
\* I/O error; backoff: the seconds slept after the last page request
\* because it failed (0 when it succeeded or when none failed yet).
FreshHist(lost) ==
    [failed |-> {}, fetched |-> {}, written |-> <<>>, first_page |-> -1,
     lost |-> lost, raised |-> {}, save_failed |-> {}, backoff |-> 0]
NewCallHist(h) ==
    [FreshHist(h.lost) EXCEPT !.failed = h.failed, !.raised = h.raised,
                              !.save_failed = h.save_failed]

\* transform_issue returns None for an issue without fields.
TransformOk(issue_key) == issue_key \notin nofields

\* `if issue_key in processed_issues: continue`
AlreadyProcessedNever(issue_key, processed) == FALSE
AlreadyProcessed(issue_key, processed) == issue_key \in processed

\* The cursor a batch flush hands to update_project_progress: the start of
\* the page being processed.
FlushCursorPageEnd(l) == l.current_start + Len(l.issues)
FlushCursor(l) == l.current_start

\* consecutive_failures += 1
FailureCountFromZero(consecutive_failures) == 1
FailureCount(consecutive_failures) == consecutive_failures + 1

\* time.sleep(2 ** consecutive_failures)
PageBackoffLinear(consecutive_failures) == 2 * consecutive_failures
PageBackoff(consecutive_failures) == 2 ^ consecutive_failures

\* `if len(batch) >= self.batch_size`
BatchFullLate(batch) == Len(batch) > batch_size
BatchFull(batch) == Len(batch) >= batch_size

\* `if transformed: ... self.state_manager.mark_issue_processed(...)`
MarkIfTransformedAlways(st, project, issue_key, transformed) ==
    mark_issue_processed(st, project, issue_key)
MarkIfTransformed(st, project, issue_key, transformed) ==
    IF transformed THEN mark_issue_processed(st, project, issue_key) ELSE st

\* `if not issues: break`, else the for loop over the page.
AfterPage(issues) == IF issues = <<>> THEN "drain" ELSE "issue"

\* `current_start += len(issues)`
AdvanceCursorSkips(l) == l.current_start + Len(l.issues) + 1
AdvanceCursor(l) == l.current_start + Len(l.issues)

\* `if len(issues) < self.max_results_per_page: break`
ShortPageNever(issues) == FALSE
ShortPage(issues) == Len(issues) < max_results_per_page

\* `while current_start < total_issues`
LoopHead(l) == IF l.current_start < l.total_issues THEN "fetch" ELSE "drain"

\* The end of one pass of `for issue in issues`.
NextIssue(l) == IF l.idx < Len(l.issues) THEN "issue" ELSE "advance"

\* scrape_all: scrape_project returned `count` for the current project.
Recorded(count) ==
    [projects |-> Put(stats.projects, Project,
                      [issues_scraped |-> count, success |-> TRUE]),
     total_issues |-> stats.total_issues + count]

ProjectReturns(count) ==
    /\ stats' = Recorded(count)
    /\ pidx' = IF pidx < Len(ProjectList) THEN pidx + 1 ELSE pidx
    /\ pc' = IF pidx < Len(ProjectList) THEN "info" ELSE "finished"
    /\ loc' = FreshLocals

\* The command line: --reset, and --reset-project with its project.
NoArgs == [reset |-> FALSE, reset_project |-> "None"]
ArgSet == [reset : BOOLEAN, reset_project : {"None"} \cup ProjSet]

\* scrape_all, `except Exception as e`: the current project raised.
RecordedErrorAsSuccess(err) ==
    [projects |-> Put(stats.projects, Project,
                      [issues_scraped |-> 0, success |-> TRUE,
                       error |-> err]),
     total_issues |-> stats.total_issues]
RecordedError(err) ==
    [projects |-> Put(stats.projects, Project,
                      [issues_scraped |-> 0, success |-> FALSE,
                       error |-> err]),
     total_issues |-> stats.total_issues]

ProjectRaises(err) ==
    /\ stats' = RecordedError(err)
    /\ pidx' = IF pidx < Len(ProjectList) THEN pidx + 1 ELSE pidx
    /\ pc' = IF pidx < Len(ProjectList) THEN "info" ELSE "finished"
    /\ loc' = FreshLocals

\* A process starts with the command line a: JiraScraper is built and its
\* StateManager loads the checkpoint document. An exception of _load_state
\* would leave main through its `except Exception`, with exit status 1.
ProcessStarts(d, a) ==
    /\ args' = a
    /\ LET r == load_outcome(d) IN
         /\ state' = IF r.ctl = "raise" THEN default_state ELSE r.value
         /\ pc' = IF r.ctl = "raise" THEN "crashed" ELSE "main"
    /\ pidx' = 1
    /\ loc' = FreshLocals
    /\ stats' = [projects |-> EmptyMap, total_issues |-> 0]

\* `for project in args.projects: scraper.reset_project(project)`
RECURSIVE ResetEach(_, _)
ResetEach(st, projects) ==
    IF projects = <<>> THEN st
    ELSE ResetEach(reset_project(st, Head(projects)), Tail(projects))

\* main returns before scrape_all exactly under `if args.reset_project:`.
ExitsAfterResetNever(a) == FALSE
ExitsAfterReset(a) == a.reset_project # "None"

ScraperInit(ps, bs, nf, a) ==
    /\ max_results_per_page = ps
    /\ batch_size = bs
    /\ nofields = nf
    /\ run = 1
    /\ args = a
    /\ pc = "main"
    /\ pidx = 1
    /\ state = default_state
    /\ disk = NoFile
    /\ output = <<>>
    /\ loc = FreshLocals
    /\ stats = [projects |-> EmptyMap, total_issues |-> 0]
    /\ hist = FreshHist(FALSE)

ExecIdle ==
    /\ max_retries = 5
    /\ retry_delay = 1
    /\ rate_limit_delay = 1
    /\ attempt = 0
    /\ epc = "loop"
    /\ result = "pending"
    /\ resps = <<>>
    /\ sleeps = <<>>

cfgvars == <<max_results_per_page, batch_size, nofields>>
others == <<cfgvars, evars, tvars>>

\* -------------------------------------------------------- DataTransformer
\* The raw comments of the tracker: a mapping with an author and a body,
\* the body a string that may carry surrounding blanks; or a value that is
\* not a mapping (a string, a number), on which `comment.get` raises.
RawBodies == {"x", " x ", "y"}
MalformedComment == [author |-> "", body |-> "", mapping |-> FALSE]
RawComments ==
    [author : {"ann", "bob"}, body : RawBodies, mapping : {TRUE}]
    \cup {MalformedComment}
RawCommentLists ==
    UNION {[1..n -> RawComments] : n \in 0..MaxComments}

\* The response of the comments endpoint: None, or a mapping with the
\* list `comments`.
NoPayload == [present |-> FALSE, comments |-> <<>>]
Payloads ==
    {NoPayload} \cup {[present |-> TRUE, comments |-> l] : l \in RawCommentLists}

\* The `fields` of a raw issue: no mapping at all (given is false), an
\* empty mapping (given, not present: `not fields` holds), or a mapping
\* with entries, which may hold the embedded comment list under `comment`.
NoComment == [present |-> FALSE, comments |-> <<>>]
NoFields == [given |-> FALSE, present |-> FALSE, comment |-> NoComment]
EmptyFields == [given |-> TRUE, present |-> FALSE, comment |-> NoComment]
RawFields ==
    {NoFields, EmptyFields,
     [given |-> TRUE, present |-> TRUE, comment |-> NoComment]}
    \cup {[given |-> TRUE, present |-> TRUE,
           comment |-> [present |-> TRUE, comments |-> l]] :
             l \in RawCommentLists}
RawIssues == {[key |-> Key("A", 1), fields |-> f] : f \in RawFields}

\* extract_text_content of a string: field.strip()
extract_text_content(field) == IF field = " x " THEN "x" ELSE field

\* The dictionary extract_comments appends for one raw comment.
CommentEntry(comment) ==
    [author |-> extract_text_content(comment.author),
     body |-> extract_text_content(comment.body)]

\* extract_comments, second loop: an embedded comment is appended unless an
\* entry of `comments` already has its extracted body.
RECURSIVE MergeEmbeddedKeepsAll(_, _)
MergeEmbeddedKeepsAll(comments, embedded) ==
    IF embedded = <<>> THEN comments
    ELSE MergeEmbeddedKeepsAll(Append(comments, CommentEntry(Head(embedded))),
                               Tail(embedded))
RECURSIVE MergeEmbedded(_, _)
MergeEmbedded(comments, embedded) ==
    IF embedded = <<>> THEN comments
    ELSE LET entry == CommentEntry(Head(embedded))
             existing == \E i \in 1..Len(comments) :
                            comments[i].body = entry.body
         IN MergeEmbedded(IF existing THEN comments
                          ELSE Append(comments, entry), Tail(embedded))

extract_comments(iss, data) ==
    LET dedicated == IF data.present
                     THEN [i \in 1..Len(data.comments) |->
                              CommentEntry(data.comments[i])]
                     ELSE <<>>
    IN IF iss.fields.comment.present
       THEN MergeEmbedded(dedicated, iss.fields.comment.comments)
       ELSE dedicated

\* 'comment_count': len(comments)
CommentCountDistinctBodies(comments) ==
    Cardinality({comments[i].body : i \in 1..Len(comments)})
CommentCount(comments) == Len(comments)

\* extract_comments raises AttributeError at the first comment of a list
\* it iterates that is not a mapping.
CommentsRaise(iss, data) ==
    \/ /\ data.present
       /\ \E i \in 1..Len(data.comments) : ~data.comments[i].mapping
    \/ /\ iss.fields.comment.present
       /\ \E i \in 1..Len(iss.fields.comment.comments) :
             ~iss.fields.comment.comments[i].mapping

\* transform_issue, the body of its try after the test of `fields`.
transform_try(iss, data) ==
    IF CommentsRaise(iss, data) THEN Raise("AttributeError")
    ELSE LET comments == extract_comments(iss, data) IN
           Return([kind |-> "record",
                   issue_key |-> iss.key,
                   comments |-> comments,
                   comment_count |-> CommentCount(comments)])

\* transform_issue, `except Exception`: the error is logged, None returned.
NoRecord == [kind |-> "None"]
transform_exceptReraises(raised) == [kind |-> "raised"]
transform_except(raised) == NoRecord

\* transform_issue: None for an issue whose fields are missing or empty
\* and for one on which an extraction raises, the record otherwise.
transform_issue(iss, data) ==
    IF ~iss.fields.present THEN NoRecord
    ELSE LET r == transform_try(iss, data) IN
           IF r.ctl = "raise" THEN transform_except(r) ELSE r.value

\* No call of transform_issue is under way.
TransformIdle ==
    /\ issue = [key |-> 0, fields |-> NoFields]
    /\ comments_data = NoPayload
    /\ tpc = "call"
    /\ treturn = [kind |-> "pending"]

\* One call of transform_issue, on any raw issue and comments payload.
InitTransform ==
    /\ ExecIdle
    /\ ScraperInit(1, 1, {}, NoArgs)
    /\ issue \in RawIssues
    /\ comments_data \in Payloads
    /\ tpc = "call"
    /\ treturn = [kind |-> "pending"]

TransformIssue ==
    /\ tpc = "call"
    /\ treturn' = transform_issue(issue, comments_data)
    /\ tpc' = "returned"
    /\ UNCHANGED <<issue, comments_data, evars, svars>>

NextTransform == TransformIssue

SpecTransform == InitTransform /\ [][NextTransform]_<<evars, svars, tvars>>

InitExec ==
    /\ ScraperInit(1, 1, {}, NoArgs)
    /\ TransformIdle
    /\ max_retries \in 0..MaxRetriesBound
    /\ retry_delay \in 1..MaxBaseDelay
    /\ rate_limit_delay \in {1, 3}
    /\ attempt = 0
    /\ epc = "loop"
    /\ result = "pending"
    /\ resps = <<>>
    /\ sleeps = <<>>

\* `for attempt in range(self.max_retries)`: the body runs for the
\* indices 0 .. max_retries - 1.
InRangeInclusive(a) == a <= max_retries
InRange(a) == a < max_retries

\* One pass of `for attempt in range(self.max_retries)`.
ExecAttempt ==
    /\ epc = "loop"
    /\ InRange(attempt)
    /\ \E o \in Outcomes :
         LET r == LoopBody(o, attempt) IN
           /\ resps' = Append(resps, o)
           /\ sleeps' = sleeps \o r.sleep
           /\ IF r.ctl = "continue"
              THEN /\ attempt' = attempt + 1
                   /\ UNCHANGED <<epc, result>>
              ELSE IF r.ctl = "return"
              THEN /\ epc' = "returned"
                   /\ result' = r.value
                   /\ UNCHANGED attempt
              ELSE /\ epc' = "raised"
                   /\ result' = "exception"
                   /\ UNCHANGED attempt
    /\ UNCHANGED <<max_retries, retry_delay, rate_limit_delay>>
    /\ UNCHANGED <<svars, tvars>>

\* The loop ran out of attempts: the `return None` after it.
ExecExhausted ==
    /\ epc = "loop"
    /\ ~InRange(attempt)
    /\ epc' = "returned"
    /\ result' = "None"
    /\ UNCHANGED <<max_retries, retry_delay, rate_limit_delay, attempt, resps,
                   sleeps>>
    /\ UNCHANGED <<svars, tvars>>

NextExec == ExecAttempt \/ ExecExhausted

SpecExec == InitExec /\ [][NextExec]_<<evars, svars, tvars>>

\* ------------------------------------------------- scrape_all, step by step
Init ==
    /\ ExecIdle
    /\ TransformIdle
    /\ \E ps \in 1..MaxPageSize, bs \in 1..MaxBatchSize,
          nf \in {{}, {Key("A", 2)}} : ScraperInit(ps, bs, nf, NoArgs)

\* main, from the reset options to the call of scrape_all.
Main ==
    /\ pc = "main"
    /\ LET s1 == IF args.reset THEN ResetEach(state, ProjectList) ELSE state
           s2 == IF args.reset_project # "None"
                 THEN reset_project(s1, args.reset_project) ELSE s1
       IN state' = s2
    /\ pc' = IF ExitsAfterReset(args) THEN "exited" ELSE "info"
    /\ UNCHANGED <<run, args, pidx, disk, output, loc, stats, hist, others>>

\* get_project_info returned the project: the processed keys and the saved
\* cursor are read from the checkpoint.
GetProjectInfoOk ==
    /\ pc = "info"
    /\ loc' = [FreshLocals EXCEPT
                 !.processed_issues = get_processed_issues(state, Project),
                 !.start_at = progress_start_at(state, Project),
                 !.current_start = progress_start_at(state, Project)]
    /\ hist' = NewCallHist(hist)
    /\ pc' = "probe"
    /\ UNCHANGED <<run, args, pidx, state, disk, output, stats, others>>

\* get_project_info returned None: `return 0`.
GetProjectInfoFails ==
    /\ pc = "info"
    /\ hist' = [NewCallHist(hist) EXCEPT !.failed = @ \cup {Project}]
    /\ ProjectReturns(0)
    /\ UNCHANGED <<run, args, state, disk, output, others>>

\* The search with max_results=1 returned the total.
CountProbeOk ==
    /\ pc = "probe"
    /\ LET l == [loc EXCEPT !.total_issues = SearchTotal(Project)] IN
         /\ loc' = l
         /\ pc' = LoopHead(l)
    /\ UNCHANGED <<run, args, pidx, state, disk, output, stats, hist, others>>

\* The search with max_results=1 returned None: `return 0`.
CountProbeFails ==
    /\ pc = "probe"
    /\ hist' = [hist EXCEPT !.failed = @ \cup {Project}]
    /\ ProjectReturns(0)
    /\ UNCHANGED <<run, args, state, disk, output, others>>

\* search_issues of the page at current_start returned None.
FetchPageFails ==
    /\ pc = "fetch"
    /\ LET n == FailureCount(loc.consecutive_failures) IN
         /\ loc' = [loc EXCEPT !.consecutive_failures = n]
         /\ IF n >= MaxConsecutiveFailures
            THEN /\ pc' = "drain"
                 /\ hist' = [hist EXCEPT !.failed = @ \cup {Project},
                                         !.backoff = 0]
            ELSE /\ pc' = "backoff"
                 /\ hist' = [hist EXCEPT !.backoff = PageBackoff(n)]
    /\ UNCHANGED <<run, args, pidx, state, disk, output, stats, others>>

\* The sleep of the backoff is over: `continue`, the loop test holds as
\* before and the same page is requested again.
BackoffDone ==
    /\ pc = "backoff"
    /\ pc' = "fetch"
    /\ UNCHANGED <<run, args, pidx, state, disk, output, loc, stats, hist,
                   others>>

\* search_issues of the page at current_start returned the page.
FetchPageOk ==
    /\ pc = "fetch"
    /\ LET page == SearchIssues(Project, loc.current_start,
                                max_results_per_page) IN
         /\ loc' = [loc EXCEPT !.consecutive_failures = 0,
                               !.issues = page,
                               !.idx = 1]
         /\ pc' = AfterPage(page)
    /\ hist' = [hist EXCEPT !.first_page =
                                IF @ = -1 THEN loc.current_start ELSE @,
                            !.backoff = 0]
    /\ UNCHANGED <<run, args, pidx, state, disk, output, stats, others>>

\* One pass of `for issue in issues`, up to the batch test.
ProcessIssue ==
    /\ pc = "issue"
    /\ LET issue_key == loc.issues[loc.idx] IN
         IF AlreadyProcessed(issue_key, loc.processed_issues)
         THEN /\ pc' = NextIssue(loc)
              /\ loc' = [loc EXCEPT !.issue_key = issue_key,
                                    !.idx = IF pc' = "issue" THEN @ + 1 ELSE @]
              /\ UNCHANGED <<state, hist>>
         ELSE LET transformed == TransformOk(issue_key)
                  batch == IF transformed THEN Append(loc.batch, issue_key)
                           ELSE loc.batch
              IN /\ state' = MarkIfTransformed(state, Project, issue_key,
                                               transformed)
                 /\ hist' = [hist EXCEPT !.fetched = @ \cup {issue_key}]
                 /\ pc' = IF BatchFull(batch) THEN "flush_write"
                          ELSE NextIssue(loc)
                 /\ loc' = [loc EXCEPT
                       !.issue_key = issue_key,
                       !.batch = batch,
                       !.total_scraped = IF transformed THEN @ + 1 ELSE @,
                       !.idx = IF pc' = "issue" THEN @ + 1 ELSE @]
    /\ UNCHANGED <<run, args, pidx, disk, output, stats, others>>

\* The batch is full: write_jsonl appends its records to the output file.
FlushWrite ==
    /\ pc = "flush_write"
    /\ output' = output \o loc.batch
    /\ hist' = [hist EXCEPT !.written = @ \o loc.batch]
    /\ pc' = "flush_save"
    /\ UNCHANGED <<run, args, pidx, state, disk, loc, stats, others>>

\* update_project_progress(project, current_start, issue_key), then
\* save_state up to the open of the state file.
FlushSaveOpen ==
    /\ pc = "flush_save"
    /\ state' = save_state_stamp(
                    update_project_progress(state, Project, FlushCursor(loc),
                                            loc.issue_key))
    /\ disk' = TruncatedFile
    /\ pc' = "flush_dump"
    /\ UNCHANGED <<run, args, pidx, output, loc, stats, hist, others>>

\* save_state writes the document; `batch = []`; the for loop goes on.
FlushSaveDump ==
    /\ pc = "flush_dump"
    /\ disk' = save_state_dump(state)
    /\ pc' = NextIssue(loc)
    /\ loc' = [loc EXCEPT !.batch = <<>>,
                          !.idx = IF pc' = "issue" THEN @ + 1 ELSE @]
    /\ UNCHANGED <<run, args, pidx, state, output, stats, hist, others>>

\* After the page: the cursor advances by len(issues), in memory, and a
\* short page ends the loop.
AdvancePage ==
    /\ pc = "advance"
    /\ LET l == [loc EXCEPT !.current_start = AdvanceCursor(loc)] IN
         /\ loc' = l
         /\ state' = update_project_progress(state, Project, l.current_start, 0)
         /\ pc' = IF ShortPage(loc.issues) THEN "drain" ELSE LoopHead(l)
    /\ UNCHANGED <<run, args, pidx, disk, output, stats, hist, others>>

\* After the loop with an empty batch: scrape_project returns.
DrainEmpty ==
    /\ pc = "drain"
    /\ loc.batch = <<>>
    /\ ProjectReturns(loc.total_scraped)
    /\ UNCHANGED <<run, args, state, disk, output, hist, others>>

\* After the loop with records left in the batch: write_jsonl.
DrainWrite ==
    /\ pc = "drain"
    /\ loc.batch # <<>>
    /\ output' = output \o loc.batch
    /\ hist' = [hist EXCEPT !.written = @ \o loc.batch]
    /\ pc' = "drain_save"
    /\ UNCHANGED <<run, args, pidx, state, disk, loc, stats, others>>

\* save_state after the last write, up to the open of the state file.
DrainSaveOpen ==
    /\ pc = "drain_save"
    /\ state' = save_state_stamp(state)
    /\ disk' = TruncatedFile
    /\ pc' = "drain_dump"
    /\ UNCHANGED <<run, args, pidx, output, loc, stats, hist, others>>

\* save_state writes the document and scrape_project returns.
DrainSaveDump ==
    /\ pc = "drain_dump"
    /\ disk' = save_state_dump(state)
    /\ ProjectReturns(loc.total_scraped)
    /\ UNCHANGED <<run, args, state, output, hist, others>>

\* The process is killed (a signal, a power cut) and the scraper is started
\* again. A kill inside write_jsonl leaves a prefix of the batch in the file.
Kill ==
    /\ pc \notin {"finished", "exited", "crashed"}
    /\ run < MaxRuns
    /\ run' = run + 1
    /\ \E j \in 0..Len(loc.batch) :
         /\ j > 0 => (pc \in {"flush_write", "drain"} /\ j < Len(loc.batch))
         /\ output' = output \o SubSeq(loc.batch, 1, j)
         /\ hist' = FreshHist(hist.lost \/
                        (pc \notin {"flush_save", "flush_dump", "drain_save",
                                    "drain_dump"} /\ j < Len(loc.batch)))
    /\ ProcessStarts(disk, NoArgs)
    /\ UNCHANGED <<disk, others>>

\* The run is over, the process exits, and the scraper is started again.
Rerun ==
    /\ pc = "finished"
    /\ run < MaxRuns
    /\ run' = run + 1
    /\ hist' = FreshHist(hist.lost)
    /\ ProcessStarts(disk, NoArgs)
    /\ UNCHANGED <<disk, output, others>>

\* ------------------------------------------- I/O errors of the two files
\* write_jsonl of a full batch raises (the open, or a write after some
\* records): the exception leaves scrape_project and scrape_all records it.
FlushWriteRaises ==
    /\ pc = "flush_write"
    /\ \E j \in 0..(Len(loc.batch) - 1) :
         /\ output' = output \o SubSeq(loc.batch, 1, j)
         /\ hist' = [hist EXCEPT !.written = @ \o SubSeq(loc.batch, 1, j),
                                 !.raised = @ \cup {Project}]
    /\ ProjectRaises("IOError")
    /\ UNCHANGED <<run, args, state, disk, others>>

\* write_jsonl of the remaining batch raises.
DrainWriteRaises ==
    /\ pc = "drain"
    /\ loc.batch # <<>>
    /\ \E j \in 0..(Len(loc.batch) - 1) :
         /\ output' = output \o SubSeq(loc.batch, 1, j)
         /\ hist' = [hist EXCEPT !.written = @ \o SubSeq(loc.batch, 1, j),
                                 !.raised = @ \cup {Project}]
    /\ ProjectRaises("IOError")
    /\ UNCHANGED <<run, args, state, disk, others>>

\* save_state of a flush: the open of the state file raises; the
\* `except Exception` of save_state logs it, and scrape_project goes on
\* with `batch = []`.
FlushSaveOpenFails ==
    /\ pc = "flush_save"
    /\ state' = save_state_stamp(
                    update_project_progress(state, Project, FlushCursor(loc),
                                            loc.issue_key))
    /\ hist' = [hist EXCEPT !.save_failed = @ \cup {Project}]
    /\ pc' = NextIssue(loc)
    /\ loc' = [loc EXCEPT !.batch = <<>>,
                          !.idx = IF pc' = "issue" THEN @ + 1 ELSE @]
    /\ UNCHANGED <<run, args, pidx, disk, output, stats, others>>

\* save_state of a flush: json.dump raises after the open emptied the file.
FlushSaveDumpFails ==
    /\ pc = "flush_dump"
    /\ hist' = [hist EXCEPT !.save_failed = @ \cup {Project}]
    /\ pc' = NextIssue(loc)
    /\ loc' = [loc EXCEPT !.batch = <<>>,
                          !.idx = IF pc' = "issue" THEN @ + 1 ELSE @]
    /\ UNCHANGED <<run, args, pidx, state, disk, output, stats, others>>

\* save_state after the last write: the open raises, scrape_project returns.
DrainSaveOpenFails ==
    /\ pc = "drain_save"
    /\ state' = save_state_stamp(state)
    /\ hist' = [hist EXCEPT !.save_failed = @ \cup {Project}]
    /\ ProjectReturns(loc.total_scraped)
    /\ UNCHANGED <<run, args, disk, output, others>>

\* save_state after the last write: json.dump raises.
DrainSaveDumpFails ==
    /\ pc = "drain_dump"
    /\ hist' = [hist EXCEPT !.save_failed = @ \cup {Project}]
    /\ ProjectReturns(loc.total_scraped)
    /\ UNCHANGED <<run, args, state, disk, output, others>>

\* The scraper is invoked again, with any command line, after the previous
\* process ended.
Invoke ==
    /\ pc \in {"finished", "exited"}
    /\ run < MaxRuns
    /\ run' = run + 1
    /\ hist' = FreshHist(hist.lost)
    /\ \E a \in ArgSet : ProcessStarts(disk, a)
    /\ UNCHANGED <<disk, output, others>>

Next ==
    \/ Main
    \/ GetProjectInfoOk \/ GetProjectInfoFails
    \/ CountProbeOk \/ CountProbeFails
    \/ FetchPageFails \/ BackoffDone \/ FetchPageOk
    \/ ProcessIssue
    \/ FlushWrite \/ FlushSaveOpen \/ FlushSaveDump
    \/ AdvancePage
    \/ DrainEmpty \/ DrainWrite \/ DrainSaveOpen \/ DrainSaveDump
    \/ Kill \/ Rerun

vars == <<evars, svars, tvars>>

Spec == Init /\ [][Next]_vars

\* One run, with the I/O errors.
NextFaults ==
    \/ Main
    \/ GetProjectInfoOk \/ GetProjectInfoFails
    \/ CountProbeOk \/ CountProbeFails
    \/ FetchPageFails \/ BackoffDone \/ FetchPageOk
    \/ ProcessIssue
    \/ FlushWrite \/ FlushSaveOpen \/ FlushSaveDump
    \/ AdvancePage
    \/ DrainEmpty \/ DrainWrite \/ DrainSaveOpen \/ DrainSaveDump
    \/ FlushWriteRaises \/ DrainWriteRaises
    \/ FlushSaveOpenFails \/ FlushSaveDumpFails
    \/ DrainSaveOpenFails \/ DrainSaveDumpFails

SpecFaults == Init /\ [][NextFaults]_vars

\* Invocations with the reset flags, each running to its end.
InitCli ==
    /\ ExecIdle
    /\ TransformIdle
    /\ \E ps \in 1..MaxPageSize, bs \in 1..MaxBatchSize, a \in ArgSet :
          ScraperInit(ps, bs, {}, a)

NextCli ==
    \/ Main
    \/ GetProjectInfoOk \/ GetProjectInfoFails
    \/ CountProbeOk \/ CountProbeFails
    \/ FetchPageFails \/ BackoffDone \/ FetchPageOk
    \/ ProcessIssue
    \/ FlushWrite \/ FlushSaveOpen \/ FlushSaveDump
    \/ AdvancePage
    \/ DrainEmpty \/ DrainWrite \/ DrainSaveOpen \/ DrainSaveDump
    \/ Invoke

SpecCli == InitCli /\ [][NextCli]_vars

\* ------------------------------------------- scrape_all, any remote tracker
\* The tracker is free to answer each request as it likes: any total, and
\* for a page any stretch of at most max_results issues of the project's
\* issue list (none, a part of the page asked for, a page served before),
\* whatever the cursor.
RemotePages(p, max_results) ==
    {SubSeq(Remote(p), w[1], w[2]) :
        w \in {v \in (1..NumIssues(p)) \X (0..NumIssues(p)) :
                  v[2] - v[1] + 1 <= max_results}}
RemoteTotals == 0..(MaxIssues + 1)

\* The search with max_results=1 returned some total.
CountProbeAny ==
    /\ pc = "probe"
    /\ \E total \in RemoteTotals :
         LET l == [loc EXCEPT !.total_issues = total] IN
           /\ loc' = l
           /\ pc' = LoopHead(l)
    /\ UNCHANGED <<run, args, pidx, state, disk, output, stats, hist, others>>

\* search_issues of the page at current_start returned some page.
FetchPageAny ==
    /\ pc = "fetch"
    /\ \E page \in RemotePages(Project, max_results_per_page) :
         /\ loc' = [loc EXCEPT !.consecutive_failures = 0,
                               !.issues = page,
                               !.idx = 1]
         /\ pc' = AfterPage(page)
    /\ hist' = [hist EXCEPT !.first_page =
                                IF @ = -1 THEN loc.current_start ELSE @,
                            !.backoff = 0]
    /\ UNCHANGED <<run, args, pidx, state, disk, output, stats, others>>

NextRemote ==
    \/ Main
    \/ GetProjectInfoOk \/ GetProjectInfoFails
    \/ CountProbeAny \/ CountProbeFails
    \/ FetchPageFails \/ BackoffDone \/ FetchPageAny
    \/ ProcessIssue
    \/ FlushWrite \/ FlushSaveOpen \/ FlushSaveDump
    \/ AdvancePage
    \/ DrainEmpty \/ DrainWrite \/ DrainSaveOpen \/ DrainSaveDump

SpecRemote == Init /\ [][NextRemote]_vars

\* search_issues of the page at current_start returned the issues that
\* are at the cursor, cut to some length: none, fewer than asked for, or
\* as many as asked for (as far as the project has them).
FetchPageAnyLength ==
    /\ pc = "fetch"
    /\ \E n \in 0..max_results_per_page :
         LET page == SearchIssues(Project, loc.current_start, n) IN
           /\ loc' = [loc EXCEPT !.consecutive_failures = 0,
                                 !.issues = page,
                                 !.idx = 1]
           /\ pc' = AfterPage(page)
    /\ hist' = [hist EXCEPT !.first_page =
                                IF @ = -1 THEN loc.current_start ELSE @,
                            !.backoff = 0]
    /\ UNCHANGED <<run, args, pidx, state, disk, output, stats, others>>

NextRemoteLive ==
    \/ Main
    \/ GetProjectInfoOk \/ GetProjectInfoFails
    \/ CountProbeAny \/ CountProbeFails
    \/ FetchPageFails \/ BackoffDone \/ FetchPageAnyLength
    \/ ProcessIssue
    \/ FlushWrite \/ FlushSaveOpen \/ FlushSaveDump
    \/ AdvancePage
    \/ DrainEmpty \/ DrainWrite \/ DrainSaveOpen \/ DrainSaveDump

\* Every request is answered or times out (requests are sent with
\* timeout=self.timeout), every sleep ends and every file operation
\* returns: a step that is possible is eventually taken.
SpecRemoteLive == Init /\ [][NextRemoteLive]_vars /\ WF_vars(NextRemoteLive)

\* ------------------------------------- StateManager, one call at a time
\* The issue keys and the cursors the methods are called with.
StoreKeys(p) == {Key(p, i) : i \in 1..Min(NumIssues(p), MaxStoreKeys)}
StoreCursors == {0, MaxPageSize}

InitStore ==
    /\ ExecIdle
    /\ TransformIdle
    /\ ScraperInit(1, 1, {}, NoArgs)

frame == <<args, pidx, output, loc, stats, hist, others>>

\* mark_issue_processed(project, issue_key)
StoreMarkAutoSaves ==
    /\ pc = "main"
    /\ \E p \in ProjSet : \E k \in StoreKeys(p) :
         /\ state' = mark_issue_processed(state, p, k)
         /\ disk' = save_state_dump(state')
    /\ UNCHANGED <<run, pc, frame>>
StoreMark ==
    /\ pc = "main"
    /\ \E p \in ProjSet : \E k \in StoreKeys(p) :
         state' = mark_issue_processed(state, p, k)
    /\ UNCHANGED <<run, pc, disk, frame>>

\* update_project_progress(project, start_at)
StoreUpdate ==
    /\ pc = "main"
    /\ \E p \in ProjSet : \E c \in StoreCursors :
         state' = update_project_progress(state, p, c, 0)
    /\ UNCHANGED <<run, pc, disk, frame>>

\* reset_project(project)
StoreReset ==
    /\ pc = "main"
    /\ \E p \in ProjSet : state' = reset_project(state, p)
    /\ UNCHANGED <<run, pc, disk, frame>>

\* save_state, up to the open of the state file.
StoreSaveOpen ==
    /\ pc = "main"
    /\ state' = save_state_stamp(state)
    /\ disk' = TruncatedFile
    /\ pc' = "save_dump"
    /\ UNCHANGED <<run, frame>>

\* save_state, json.dump.
StoreSaveDump ==
    /\ pc = "save_dump"
    /\ disk' = save_state_dump(state)
    /\ pc' = "main"
    /\ UNCHANGED <<run, state, frame>>

\* The process ends where it is, without a save_state, and a new one
\* builds its StateManager from the document.
StoreRestart ==
    /\ run < MaxRuns
    /\ run' = run + 1
    /\ state' = load_state(disk)
    /\ pc' = "main"
    /\ UNCHANGED <<disk, frame>>

NextStore ==
    \/ StoreMark \/ StoreUpdate \/ StoreReset
    \/ StoreSaveOpen \/ StoreSaveDump
    \/ StoreRestart

SpecStore == InitStore /\ [][NextStore]_vars

\* ======================================================== executor claims
Last(q) == q[Len(q)]
Is5xx(o) == o.kind = "http" /\ o.status >= 500
IsTransient(o) == Is5xx(o) \/ o.kind \in {"Timeout", "ConnectionError"}
IsRateLimited(o) == o.kind = "http" /\ o.status = 429 /\ o.ra # "unparsable"
IsNonRetryable(o) ==
    /\ o.kind = "http"
    /\ \/ (400 <= o.status /\ o.status < 500 /\ o.status # 429)
       \/ (o.status = 200 /\ o.body # "valid")
       \/ (o.status # 200 /\ o.status # 429 /\ o.status < 400)
IsValid200(o) == o.kind = "http" /\ o.status = 200 /\ o.body = "valid"
\* base, 2*base, ..., base*2^(n-1)
BackoffSchedule(n) == [i \in 1..n |-> retry_delay * Pow2(i - 1)]

\* C1: a 429 response never consumes a retry attempt: after a 429 (with a
\* usable or absent Retry-After) the call sleeps and issues another request,
\* so a call never returns with a 429 as the last response it received.
C1_RateLimitNeverEndsCall ==
    (epc = "returned" /\ Len(resps) > 0) => ~IsRateLimited(Last(resps))

\* C2: k responses 5xx (k < max_retries) followed by a valid 200 give
\* exactly the k sleeps base*2^0 .. base*2^(k-1), in order, and the parsed
\* payload as the result.
C2_BackoffThenSuccess ==
    \A k \in 0..Len(resps) :
        ( /\ k < max_retries
          /\ Len(resps) = k + 1
          /\ \A i \in 1..k : Is5xx(resps[i])
          /\ IsValid200(resps[k + 1]) )
        => /\ epc = "returned"
           /\ result = "data"
           /\ sleeps = BackoffSchedule(k)

\* C2 witness: three 503 responses and then a 200 have been handled.
C2_Witness ==
    /\ epc = "returned"
    /\ Len(resps) = 4
    /\ \A i \in 1..3 : Is5xx(resps[i])
    /\ IsValid200(resps[4])

\* C3: when every attempt fails with a 5xx, a timeout or a connection
\* error, the call issues exactly max_retries requests, sleeps base*2^i
\* after the failure at attempt index i < max_retries - 1, does not sleep
\* after the last failure and returns None; and while the call is still
\* running it has slept once per failure so far, on the same schedule.
C3_ExhaustedReturnsNone ==
    (\A i \in 1..Len(resps) : IsTransient(resps[i]))
    => IF epc = "returned"
       THEN /\ Len(resps) = max_retries
            /\ result = "None"
            /\ sleeps = BackoffSchedule(IF max_retries = 0 THEN 0
                                        ELSE max_retries - 1)
       ELSE /\ epc = "loop"
            /\ (Len(resps) < max_retries \/ max_retries = 0)
            /\ sleeps = BackoffSchedule(Len(resps))

\* C3 witness: a call with at least three attempts has failed on all of
\* them, with a 5xx, a timeout and a connection error among the failures.
C3_Witness ==
    /\ epc = "returned"
    /\ max_retries >= 3
    /\ Len(resps) = max_retries
    /\ \A i \in 1..Len(resps) : IsTransient(resps[i])
    /\ \E i, j, k \in 1..Len(resps) :
         /\ Is5xx(resps[i])
         /\ resps[j].kind = "Timeout"
         /\ resps[k].kind = "ConnectionError"

\* C4: a non-retryable response (4xx other than 429, a 200 with a null or
\* unparsable body, any other status that is not 200, 429 or >= 500) is the
\* last request of the call, the call returns None, and no sleep follows
\* it (every sleep of the call belongs to an earlier response).
C4_NonRetryableEndsCall ==
    \A i \in 1..Len(resps) :
        IsNonRetryable(resps[i])
        => /\ i = Len(resps)
           /\ epc = "returned"
           /\ result = "None"
           /\ Len(sleeps) = i - 1

\* C4 witness: a 404 arrived after two retried failures.
C4_Witness ==
    /\ Len(resps) = 3
    /\ resps[3].kind = "http" /\ resps[3].status = 404
    /\ epc = "returned"

\* C5: the executor never propagates an error: a call that ended has
\* returned, and what it returned is the parsed payload or None.
C5_NeverRaises ==
    /\ epc \in {"loop", "returned"}
    /\ epc = "returned" => result \in {"data", "None"}
    /\ epc = "loop" => result = "pending"

\* C5 witness: an unexpected exception (one raised by the transport, or the
\* ValueError of an unparsable Retry-After) was met and the call returned.
C5_Witness ==
    /\ epc = "returned"
    /\ Len(resps) > 0
    /\ \/ Last(resps).kind = "OtherException"
       \/ (Last(resps).kind = "http" /\ Last(resps).ra = "unparsable")

\* ==================================================== orchestrator claims
\* The checkpoint a process started now would load.
Persisted == load_state(disk)
InOutput(k) == k \in Range(output)

\* C6: a kill loses at most the unflushed batch, and a resumed run that
\* completes writes what is missing. (1) every key the persisted document
\* marks processed has its record in the output; (2) every key marked in
\* memory is in the output or in the current batch; (3) every transformable
\* issue whose record is not in the output lies at or after the persisted
\* cursor and is not marked processed in the persisted document, so a
\* resumed run fetches it again; (4) when a run, resumed or not, completes
\* with no project failed, every transformable remote issue has a record
\* in the output.
C6_KillLosesNoIssue ==
    /\ \A p \in ProjSet :
         /\ \A k \in get_processed_issues(Persisted, p) : InOutput(k)
         /\ \A k \in get_processed_issues(state, p) :
               InOutput(k) \/ k \in Range(loc.batch)
         /\ \A i \in 1..NumIssues(p) :
               (TransformOk(Key(p, i)) /\ ~InOutput(Key(p, i)))
               => /\ progress_start_at(Persisted, p) <= i - 1
                  /\ Key(p, i) \notin get_processed_issues(Persisted, p)
    /\ (pc = "finished" /\ hist.failed = {})
       => \A k \in AllKeys : TransformOk(k) => InOutput(k)

\* C6 witness: a kill discarded an unflushed batch, and a later run has
\* completed with every project done and every record written.
C6_Witness ==
    /\ pc = "finished"
    /\ run > 1
    /\ hist.lost
    /\ hist.failed = {}
    /\ \A k \in AllKeys : TransformOk(k) => InOutput(k)

\* C7: in a project run that starts from a checkpoint with start_at = N and
\* processed set S, no issue whose key is in S has its comments fetched, is
\* transformed, batched or appended to the output, and the first page
\* requested starts at offset N.
C7_ResumeSkipsProcessed ==
    /\ hist.fetched \cap loc.processed_issues = {}
    /\ Range(loc.batch) \cap loc.processed_issues = {}
    /\ (pc \notin {"info", "finished"})
       => /\ Range(hist.written) \cap loc.processed_issues = {}
          /\ hist.first_page \in {-1, loc.start_at}

\* C7 witness: a run resumed at a cursor N > 0 has requested its first
\* page at N, has passed an issue of S on a page it fetched, and has
\* appended a new record.
C7_Witness ==
    /\ loc.start_at > 0
    /\ hist.first_page = loc.start_at
    /\ hist.written # <<>>
    /\ \E i \in 1..NumIssues(Project) :
         /\ Key(Project, i) \in loc.processed_issues
         /\ loc.start_at <= i - 1
         /\ i - 1 < loc.current_start

\* C8: without a reset, the processed set of a project never loses a key
\* and its start_at never decreases, in memory during a run and in the
\* persisted document as a process would reload it.
C8_CheckpointMonotonic ==
    [][\A p \in ProjSet :
          /\ get_processed_issues(Persisted, p)
                \subseteq get_processed_issues(load_state(disk'), p)
          /\ progress_start_at(Persisted, p)
                <= progress_start_at(load_state(disk'), p)
          /\ run' = run
             => /\ get_processed_issues(state, p)
                      \subseteq get_processed_issues(state', p)
                /\ progress_start_at(state, p) <= progress_start_at(state', p)
      ]_vars

\* C9: persist() is atomic: a process killed at any point finds, when it
\* starts again, the complete previous document or the complete new one,
\* never an empty or truncated file.
C9_PersistAtomic ==
    [][run' # run => disk'.kind # "truncated"]_vars

\* C10: a project that entered Failed (no project info, no count, or
\* pagination aborted after 5 consecutive page failures) is recorded in the
\* run stats with success false, and the remaining projects are still
\* processed.
C10_FailedProjectRecorded ==
    /\ \A p \in hist.failed :
         p \in DOMAIN stats.projects => ~stats.projects[p].success
    /\ pc = "finished" => DOMAIN stats.projects = ProjSet

\* The sum of issues_scraped over the projects of `ps` recorded as
\* successful.
RECURSIVE SumSuccessful(_, _)
SumSuccessful(projects, ps) ==
    IF ps = {} THEN 0
    ELSE LET p == CHOOSE x \in ps : TRUE IN
           (IF projects[p].success THEN projects[p].issues_scraped ELSE 0)
           + SumSuccessful(projects, ps \ {p})

\* The projects scrape_all has recorded so far in a run that keeps the
\* order of self.projects.
RecordedInOrder ==
    {ProjectList[i] : i \in 1..(IF pc = "finished" THEN Len(ProjectList)
                                 ELSE pidx - 1)}

\* C11: a project whose scrape_project raised is recorded with
\* issues_scraped 0, success false and the error; the projects recorded
\* are at every moment the configured projects before the current one, so
\* every later project is still scraped, in order, and all are recorded
\* when the run ends; and total_issues is the sum of issues_scraped over
\* the projects recorded as successful.
C11_RaisedProjectRecorded ==
    /\ \A p \in hist.raised :
         /\ p \in DOMAIN stats.projects
         /\ stats.projects[p] = [issues_scraped |-> 0, success |-> FALSE,
                                 error |-> "IOError"]
    /\ DOMAIN stats.projects = RecordedInOrder
    /\ pc \in {"main", "info", "probe", "fetch", "backoff", "issue",
               "flush_write", "flush_save", "flush_dump", "advance", "drain",
               "drain_save", "drain_dump", "finished"}
    /\ stats.total_issues
          = SumSuccessful(stats.projects, DOMAIN stats.projects)

\* C11 witness: the first project raised inside write_jsonl, and the run
\* went on to scrape the second project and ended.
C11_Witness ==
    /\ pc = "finished"
    /\ "A" \in hist.raised
    /\ stats.projects["B"] = [issues_scraped |-> 1, success |-> TRUE]
    /\ stats.total_issues = 1

\* The step in which scrape_project of the first project returns, in the
\* scenario of C12: 3 remote issues, all with fields, page size 2, saved
\* cursor 0, exactly one key of the first page in the processed set at
\* the start, and pagination not aborted.
C12_ScenarioEnds ==
    /\ pidx = 1
    /\ pc \in {"drain", "drain_dump"}
    /\ pc' = "info"
    /\ NumIssues("A") = 3
    /\ nofields = {}
    /\ max_results_per_page = 2
    /\ loc.start_at = 0
    /\ Cardinality(loc.processed_issues) = 1
    /\ loc.processed_issues \subseteq {Key("A", 1), Key("A", 2)}
    /\ "A" \notin hist.failed

\* C12: in that scenario the run appends exactly 2 records, the checkpoint
\* (the persisted document of the project) ends with cursor 3, and the
\* processed set of the project has exactly 3 keys.
C12_EndToEnd ==
    [][C12_ScenarioEnds
       => /\ Len(hist.written) = 2
          /\ progress_start_at(load_state(disk'), "A") = 3
          /\ Cardinality(get_processed_issues(load_state(disk'), "A")) = 3
      ]_vars

\* ============================================== checkpoint store claims
\* C13: mark_issue_processed is idempotent: in every state of the store,
\* for every project and key, a second call with the same project and key
\* leaves the processed list of the project as the first call left it
\* (the same keys in the same order), and the rest of the state too.
C13_MarkIdempotent ==
    \A p \in ProjSet : \A k \in StoreKeys(p) :
        LET once == mark_issue_processed(state, p, k)
            twice == mark_issue_processed(once, p, k)
        IN /\ twice.processed_issues[p] = once.processed_issues[p]
           /\ twice = once
           /\ k \in get_processed_issues(state, p)
                 => once.processed_issues[p] = state.processed_issues[p]

\* C13 witness: two keys of a project were marked, the larger first, and
\* a key of the other project too, so a key is marked again in a list
\* where it is first, one where it is last and one where it is alone.
C13_Witness ==
    /\ pc = "main"
    /\ "A" \in DOMAIN state.processed_issues
    /\ "B" \in DOMAIN state.processed_issues
    /\ state.processed_issues["A"] = <<Key("A", 2), Key("A", 1)>>
    /\ state.processed_issues["B"] = <<Key("B", 1)>>

\* C14: the checkpoint document changes only inside save_state: every
\* call of mark_issue_processed, update_project_progress or reset_project
\* leaves the file as it was, and a process that ends without save_state
\* is followed by one that loads the document as it was last written.
C14_OnlyPersistWrites ==
    [][/\ (pc = "main" /\ pc' = "main") => disk' = disk
       /\ run' # run => (disk' = disk /\ state' = Persisted)
      ]_vars

\* C14 witness: after a completed save_state, a reset of one project, a
\* mark and a progress update of the other are in memory only.
C14_Witness ==
    /\ pc = "main"
    /\ disk.kind = "doc"
    /\ "A" \in DOMAIN disk.doc.projects
    /\ "A" \in DOMAIN disk.doc.processed_issues
    /\ "A" \notin DOMAIN state.projects
    /\ "A" \notin DOMAIN state.processed_issues
    /\ Key("B", 1) \in get_processed_issues(state, "B")
    /\ Key("B", 1) \notin get_processed_issues(Persisted, "B")
    /\ progress_start_at(state, "B") # progress_start_at(Persisted, "B")

\* The two entries the store holds for a project: its progress mapping
\* and its list of processed keys (<<>> when there is no entry).
StoreEntries(st, p) ==
    <<get_project_progress(st, p),
      p \in DOMAIN st.processed_issues,
      IF p \in DOMAIN st.processed_issues THEN st.processed_issues[p]
      ELSE <<>>>>

\* The projects the reset options of the command line name.
ResetNamed ==
    (IF args.reset THEN ProjSet ELSE {})
    \cup (IF args.reset_project # "None" THEN {args.reset_project} ELSE {})

\* C15: the resets of an invocation remove the progress entry and the
\* processed-keys entry of every project they name, leave the two entries
\* of every other project as they were, and leave the output file and
\* the records in it as they were.
C15_ResetFrame ==
    [][(pc = "main" /\ pc' # "main" /\ run' = run)
       => /\ \A p \in ResetNamed :
               /\ p \notin DOMAIN state'.projects
               /\ p \notin DOMAIN state'.processed_issues
          /\ \A p \in ProjSet \ ResetNamed :
               StoreEntries(state', p) = StoreEntries(state, p)
          /\ output' = output
      ]_vars

\* C15 witness: --reset-project A was handled in a process that had loaded
\* progress and processed keys of both projects; those of B are still in
\* the store and the records of A are still in the output.
C15_Witness ==
    /\ pc = "exited"
    /\ args = [reset |-> FALSE, reset_project |-> "A"]
    /\ StoreEntries(state, "A") = <<EmptyMap, FALSE, <<>>>>
    /\ get_processed_issues(Persisted, "A") # {}
    /\ "A" \in DOMAIN Persisted.projects
    /\ get_processed_issues(state, "B") # {}
    /\ "B" \in DOMAIN state.projects
    /\ \A k \in get_processed_issues(Persisted, "A") : InOutput(k)

\* C16: building the StateManager never fails on the document: no process
\* ends in _load_state, and a process that found the document absent or
\* unparsable holds the default state when main goes on.
C16_LoadFailsOpen ==
    /\ pc # "crashed"
    /\ (pc = "main" /\ disk.kind \in {"absent", "truncated"})
       => state = default_state

\* C16 witness: a process started on a truncated document and went on to
\* scrape from the default state.
C16_Witness ==
    /\ run > 1
    /\ pc = "probe"
    /\ disk.kind = "truncated"
    /\ loc.start_at = 0
    /\ loc.processed_issues = {}

\* C17: an I/O error of save_state surfaces: a project in whose
\* scrape_project a save_state failed is not recorded as a success.
C17_SaveFailureSurfaces ==
    \A p \in hist.save_failed :
        p \in DOMAIN stats.projects => ~stats.projects[p].success

\* C18 as claimed: get_project_progress of a project without a progress
\* entry is the mapping {start_at: 0}.
C18_UnseenProgressDefault ==
    \A p \in ProjSet :
        p \notin DOMAIN state.projects
        => get_project_progress(state, p) = [start_at |-> 0]

\* C18, amended: get_project_progress of a project without a progress
\* entry is the empty mapping, without a start_at key, and scrape_project
\* reads start_at 0 from it, so the project starts at cursor 0.
C18_UnseenProgressEmpty ==
    /\ \A p \in ProjSet :
         p \notin DOMAIN state.projects
         => /\ get_project_progress(state, p) = EmptyMap
            /\ DOMAIN get_project_progress(state, p) = {}
            /\ progress_start_at(state, p) = 0
    /\ (pc = "probe" /\ Project \notin DOMAIN state.projects)
       => (loc.start_at = 0 /\ loc.current_start = 0)

\* C18 witness: scrape_project has read the progress of the second
\* project, which has no entry, while the first project has one.
C18_Witness ==
    /\ pc = "probe"
    /\ Project = "B"
    /\ "B" \notin DOMAIN state.projects
    /\ "A" \in DOMAIN state.projects
    /\ progress_start_at(state, "A") > 0

\* C19 as claimed: an invocation with --reset or with --reset-project
\* never gets past main to scrape_all, so it issues no request.
C19_ResetFlagExits ==
    (args.reset \/ args.reset_project # "None") => pc \in {"main", "exited"}

\* C19, amended: an invocation with --reset-project (with or without
\* --reset) resets and returns from main without calling scrape_all, so
\* it issues no request; an invocation with --reset alone resets every
\* configured project in memory and goes on to scrape_all, where every
\* project starts at cursor 0 with no processed key.
C19_ResetProjectExits ==
    /\ args.reset_project # "None" => pc \in {"main", "exited"}
    /\ args.reset_project = "None" => pc # "exited"
    /\ (args.reset /\ args.reset_project = "None" /\ pc = "probe")
       => (loc.start_at = 0 /\ loc.processed_issues = {})

\* C19 witness: a process given both flags, started on a checkpoint that
\* held both projects, has reset them and returned from main.
C19_Witness ==
    /\ pc = "exited"
    /\ args = [reset |-> TRUE, reset_project |-> "B"]
    /\ DOMAIN Persisted.projects = ProjSet
    /\ state.projects = EmptyMap
    /\ state.processed_issues = EmptyMap

\* ================================================== transformer claims
\* C20: every record transform_issue returns has comment_count equal to
\* the length of its comments list, whatever the raw issue and the
\* comments payload are (no payload, no embedded list, lists that share
\* bodies).
C20_CommentCountIsLength ==
    (tpc = "returned" /\ treturn.kind = "record")
    => treturn.comment_count = Len(treturn.comments)

\* C20 witness: a record was returned for a payload of two comments and
\* an embedded list of two, one of which repeats a body of the payload
\* up to blanks, so the merged list has three entries.
C20_Witness ==
    /\ tpc = "returned"
    /\ treturn.kind = "record"
    /\ comments_data.present
    /\ Len(comments_data.comments) = 2
    /\ issue.fields.comment.present
    /\ Len(issue.fields.comment.comments) = 2
    /\ comments_data.comments[1].body = "x"
    /\ issue.fields.comment.comments[1].body = " x "
    /\ treturn.comment_count = 3

\* The entries extract_comments builds from the comments payload, and the
\* extracted bodies of the two lists of the call.
DedicatedEntries ==
    IF comments_data.present
    THEN [i \in 1..Len(comments_data.comments) |->
             CommentEntry(comments_data.comments[i])]
    ELSE <<>>
DedicatedBodies == {DedicatedEntries[i].body : i \in 1..Len(DedicatedEntries)}
EmbeddedBodies ==
    {extract_text_content(issue.fields.comment.comments[i].body) :
        i \in 1..Len(issue.fields.comment.comments)}
WithBody(entries, b) == SelectSeq(entries, LAMBDA e : e.body = b)

\* C21 as claimed: for a body that the comments payload and the embedded
\* list share, the merged list has exactly one entry, an entry built from
\* the payload; and the payload entries come first in the merged list.
C21_SharedBodyOnce ==
    (tpc = "returned" /\ treturn.kind = "record")
    => /\ \A b \in DedicatedBodies \cap EmbeddedBodies :
            /\ Len(WithBody(treturn.comments, b)) = 1
            /\ WithBody(treturn.comments, b)[1] \in Range(DedicatedEntries)
       /\ SubSeq(treturn.comments, 1, Len(DedicatedEntries)) = DedicatedEntries

\* C21, amended: for a body of the comments payload, shared with the
\* embedded list or not, the entries of the merged list with that body
\* are exactly the entries built from the payload, in their order (two
\* of them when the payload holds the body twice), and none is built from
\* the embedded list; the payload entries come first; and after them
\* every body of the embedded list that the payload lacks has exactly one
\* entry.
C21_SharedBodyFromDedicated ==
    (tpc = "returned" /\ treturn.kind = "record")
    => /\ \A b \in DedicatedBodies :
            WithBody(treturn.comments, b) = WithBody(DedicatedEntries, b)
       /\ SubSeq(treturn.comments, 1, Len(DedicatedEntries)) = DedicatedEntries
       /\ \A b \in EmbeddedBodies \ DedicatedBodies :
            Len(WithBody(treturn.comments, b)) = 1
       /\ \A i \in 1..Len(treturn.comments) :
            treturn.comments[i].body \in DedicatedBodies \cup EmbeddedBodies

\* C21 witness: the payload holds "x" by ann, the embedded list holds
\* " x " by bob and then "y": the record holds the entry of ann and "y".
C21_Witness ==
    /\ tpc = "returned"
    /\ comments_data.present
    /\ comments_data.comments
          = <<[author |-> "ann", body |-> "x", mapping |-> TRUE]>>
    /\ issue.fields.comment.comments
          = <<[author |-> "bob", body |-> " x ", mapping |-> TRUE],
              [author |-> "bob", body |-> "y", mapping |-> TRUE]>>
    /\ treturn.kind = "record"
    /\ treturn.comments = <<[author |-> "ann", body |-> "x"],
                            [author |-> "bob", body |-> "y"]>>

\* C22 as claimed: transform_issue returns a record for every raw issue
\* that has a fields mapping.
C22_AbsentOnlyWithoutFields ==
    (tpc = "returned" /\ issue.fields.given) => treturn.kind = "record"

\* C22, amended: transform_issue never raises; it returns None exactly
\* when the fields mapping is missing or empty or an extraction step
\* raises (here: a comment that is not a mapping, in the payload or in
\* the embedded list), and a record for every other raw issue.
C22_AbsentWithoutFieldsOrOnError ==
    tpc = "returned"
    => /\ treturn.kind \in {"None", "record"}
       /\ treturn.kind = "None"
             <=> (~issue.fields.present \/ CommentsRaise(issue, comments_data))

\* C22 witness: None was returned for an issue with fields and a comments
\* payload that holds a comment and then a value that is not a mapping.
C22_Witness ==
    /\ tpc = "returned"
    /\ issue.fields.present
    /\ ~issue.fields.comment.present
    /\ comments_data.present
    /\ Len(comments_data.comments) = 2
    /\ comments_data.comments[1].mapping
    /\ comments_data.comments[2] = MalformedComment
    /\ treturn = NoRecord

\* C23: every page request of scrape_project ends in one of three ways.
\* It fails for the n-th time in a row with n < 5: the cursor and the
\* checkpoint are unchanged, the orchestrator sleeps 2^n seconds and, the
\* sleep over, asks for the same cursor again.  It fails for the 5th time in a row: the
\* pagination is abandoned without a sleep.  It succeeds: the counter of
\* consecutive failures is zero again.  A cursor is asked for again only
\* after a failure, so no cursor is requested more than 5 times in a row.
C23_Retried ==
    /\ pc' = "backoff"
    /\ loc'.consecutive_failures = loc.consecutive_failures + 1
    /\ loc'.consecutive_failures < 5
    /\ hist'.backoff = 2 ^ loc'.consecutive_failures
C23_Aborted ==
    /\ pc' = "drain"
    /\ loc.consecutive_failures = 4
    /\ loc'.consecutive_failures = 5
    /\ hist'.backoff = 0
C23_Succeeded ==
    /\ pc' \in {"issue", "drain"}
    /\ loc'.consecutive_failures = 0
    /\ hist'.backoff = 0
C23_PageFailurePolicy ==
    [][/\ pc = "fetch" =>
            /\ loc'.current_start = loc.current_start
            /\ state' = state
            /\ disk' = disk
            /\ C23_Retried \/ C23_Aborted \/ C23_Succeeded
       /\ pc = "backoff" =>
            /\ pc' = "fetch"
            /\ <<loc', state', disk', hist'>> = <<loc, state, disk, hist>>
       /\ (pc \notin {"fetch", "backoff"} /\ pc' = "fetch") =>
            \/ pc = "probe"
            \/ loc'.current_start > loc.current_start /\
               loc'.consecutive_failures = 0]_vars
C23_Witness ==
    /\ pc = "fetch"
    /\ loc.current_start > 0
    /\ loc.consecutive_failures = 4
    /\ hist.backoff = 16

\* C24: when the orchestrator has processed a page, the cursor advances by
\* the number of issues of the page and the checkpoint is persisted: right
\* after the advance the start_at of the project in the persisted document
\* is the new cursor.
C24_PageAdvances == pc = "advance" /\ pc' \in {"fetch", "drain"}
C24_AdvancePersists ==
    [][C24_PageAdvances
       => /\ loc'.current_start = loc.current_start + Len(loc.issues)
          /\ progress_start_at(state', Project) = loc'.current_start
          /\ progress_start_at(load_state(disk'), Project) = loc'.current_start
      ]_vars

\* C25: when scrape_project returns after its pagination loop (ended by
\* the total, by an empty or short page, or by 5 consecutive failures),
\* the records left in the batch are in the output, and the persisted
\* start_at and processed set of the project equal the in-memory ones,
\* also when the batch left was empty.
C25_ReturnsAfterLoop ==
    /\ pc \in {"drain", "drain_dump"}
    /\ pc' \in {"info", "finished"}
C25_DrainPersists ==
    [][C25_ReturnsAfterLoop
       => /\ Range(loc.batch) \subseteq Range(output')
          /\ progress_start_at(load_state(disk'), Project) =
               progress_start_at(state', Project)
          /\ get_processed_issues(load_state(disk'), Project) =
               get_processed_issues(state', Project)
      ]_vars

\* C26: the batch is flushed as soon as it holds batch_size records: its
\* records are appended to the output, then the checkpoint of the project
\* gets cursor = start of the page being processed and last key = the
\* issue processed last, and is persisted, then the batch is cleared.  So
\* the batch never holds more than batch_size records, it is full only
\* while it is being flushed, and every key the persisted document marks
\* as processed has its record in the output already.
C26_FlushPcs == {"flush_write", "flush_save", "flush_dump"}
C26_BatchBounded ==
    /\ Len(loc.batch) <= batch_size
    /\ (Len(loc.batch) = batch_size) <=> (pc \in C26_FlushPcs)
    /\ pc \in {"flush_save", "flush_dump"} =>
          Range(loc.batch) \subseteq Range(output)
    /\ \A p \in ProjSet :
          get_processed_issues(Persisted, p) \subseteq Range(output)
C26_Written ==
    /\ output' = output \o loc.batch
    /\ state' = state
    /\ disk' = disk
C26_Updated ==
    /\ get_project_progress(state', Project) =
          [start_at |-> loc.current_start,
           last_issue_key |-> loc.batch[Len(loc.batch)]]
    /\ loc.issue_key = loc.batch[Len(loc.batch)]
    /\ output' = output
C26_Persisted ==
    /\ load_state(disk') = state
    /\ Range(loc.batch) \subseteq get_processed_issues(load_state(disk'), Project)
    /\ loc'.batch = <<>>
    /\ output' = output
C26_BatchFlush ==
    /\ []C26_BatchBounded
    /\ [][/\ (pc = "flush_write" /\ pc' = "flush_save") => C26_Written
          /\ (pc = "flush_save" /\ pc' = "flush_dump") => C26_Updated
          /\ (pc = "flush_dump" /\ pc' \in {"issue", "advance"})
                => C26_Persisted
          /\ (pc \in C26_FlushPcs /\ pc' \in C26_FlushPcs) =>
                pc' = IF pc = "flush_write" THEN "flush_save" ELSE "flush_dump"
         ]_vars
C26_Witness ==
    /\ pc = "advance"
    /\ batch_size = 2
    /\ loc.batch = <<>>
    /\ loc.current_start = 0
    /\ get_project_progress(Persisted, "A") =
          [start_at |-> 0, last_issue_key |-> Key("A", 2)]
    /\ Range(output) = {Key("A", 1), Key("A", 2)}

\* C27: whenever the persisted document has a progress entry for a project
\* and at least one batch of the project was saved (the persisted processed
\* list of the project is not empty), the last_issue_key of the entry is
\* the key processed last in the most recent saved batch, that is the last
\* key of the persisted processed list; a page advance does not erase it.
C27_LastKeyIsLastSaved ==
    \A p \in ProjSet :
       (/\ p \in DOMAIN Persisted.projects
        /\ p \in DOMAIN Persisted.processed_issues
        /\ Persisted.processed_issues[p] # <<>>)
       => Persisted.projects[p].last_issue_key =
            Persisted.processed_issues[p][Len(Persisted.processed_issues[p])]

\* C28: the pagination of a project ends after the first page fetched
\* successfully that is empty or shorter than the page size, whatever the
\* total: an empty page leaves the cursor where it is, a short page
\* advances it by its number of issues, and in both cases no page is
\* requested for the project any more in the run (a page is requested
\* only first, after a failure, or after a full page).
C28_DrainPcs == {"drain", "drain_save", "drain_dump"}
C28_EmptyPageFetched ==
    /\ pc = "fetch"
    /\ loc'.consecutive_failures = 0
    /\ loc'.issues = <<>>
C28_ShortPageDone ==
    /\ pc = "advance"
    /\ Len(loc.issues) < max_results_per_page
C28_ShortOrEmptyPageEnds ==
    [][/\ C28_EmptyPageFetched =>
            /\ pc' = "drain"
            /\ loc'.current_start = loc.current_start
            /\ state' = state
       /\ C28_ShortPageDone =>
            /\ pc' = "drain"
            /\ loc'.current_start = loc.current_start + Len(loc.issues)
       /\ pc \in C28_DrainPcs =>
            /\ pc' \in C28_DrainPcs \cup {"info", "finished"}
            /\ pc' \in C28_DrainPcs => loc'.current_start = loc.current_start
       /\ pc' = "fetch" =>
            \/ pc = "probe"
            \/ pc = "backoff"
            \/ /\ pc = "advance"
               /\ Len(loc.issues) = max_results_per_page
               /\ loc'.current_start < loc.total_issues
      ]_vars
C28_Witness ==
    /\ pc = "drain"
    /\ max_results_per_page = 2
    /\ Len(loc.issues) = 1
    /\ loc.consecutive_failures = 0
    /\ loc.current_start = 3
    /\ loc.current_start < loc.total_issues

\* C29: when transform_issue returns None for an issue of a page, no
\* record is written for it and its key is not marked processed (neither
\* in memory nor in the persisted document), the issues after it in the
\* page are processed as usual, and at the end of the page the cursor
\* advances by the whole length of the page, the skipped issue included.
C29_NeverRecorded ==
    \A k \in nofields :
       /\ k \notin Range(output)
       /\ k \notin Range(loc.batch)
       /\ \A p \in ProjSet :
             /\ k \notin get_processed_issues(state, p)
             /\ k \notin get_processed_issues(Persisted, p)
C29_TransformAbsent ==
    /\ pc = "issue"
    /\ loc.issues[loc.idx] \in nofields
C29_AbsentIssueSkipped ==
    /\ []C29_NeverRecorded
    /\ [][/\ C29_TransformAbsent =>
              /\ loc'.batch = loc.batch
              /\ loc'.total_scraped = loc.total_scraped
              /\ loc'.current_start = loc.current_start
              /\ loc'.issues = loc.issues
              /\ <<state', disk', output'>> = <<state, disk, output>>
              /\ IF loc.idx < Len(loc.issues)
                 THEN pc' = "issue" /\ loc'.idx = loc.idx + 1
                 ELSE pc' = "advance"
          /\ pc = "advance" =>
              /\ loc.idx = Len(loc.issues)
              /\ loc'.current_start = loc.current_start + Len(loc.issues)
              /\ progress_start_at(state', Project) = loc'.current_start
         ]_vars
C29_Witness ==
    /\ pc = "fetch"
    /\ nofields = {Key("A", 2)}
    /\ loc.issues = <<Key("A", 2), Key("A", 3)>>
    /\ loc.current_start = 2
    /\ Key("A", 3) \in Range(output)
    /\ get_processed_issues(state, "A") = {Key("A", 3)}

\* C30: scrape_project always terminates.  Whatever the tracker answers
\* (any total, failed requests, empty, short or full pages, in any order),
\* every call of scrape_project returns, and so the run of scrape_all
\* finishes: each pass of the loop advances the cursor, or counts one more
\* consecutive failure towards 5, or leaves the loop.
C30_ScrapeTerminates ==
    /\ \A i \in 1..Len(ProjectList) :
          (pc = "info" /\ pidx = i) ~> (pc = "finished" \/ pidx > i)
    /\ <>(pc = "finished")
C30_Witness ==
    /\ pc = "finished"
    /\ "A" \in hist.failed
    /\ Key("A", 1) \in Range(output)
    /\ Key("B", 1) \in Range(output)

\* C31: one call of the executor issues at most max_retries requests in
\* all, whatever the responses are (429 included); with max_retries = 0
\* it issues none and returns None.
C31_RequestsBounded ==
    /\ Len(resps) <= max_retries
    /\ Len(resps) <= attempt + 1
    /\ (max_retries = 0) =>
          /\ resps = <<>>
          /\ sleeps = <<>>
          /\ epc \in {"loop", "returned"}
          /\ (epc = "returned") => (result = "None")
C31_Witness ==
    /\ epc = "returned"
    /\ result = "None"
    /\ max_retries = 3
    /\ Len(resps) = 3
    /\ \A i \in 1..3 : resps[i].kind = "http" /\ resps[i].status = 429

\* C32: within one run no issue key is appended to the output more than
\* once, also when the tracker serves the same issue on two pages of the
\* run: the keys of the records the run has written are all different.
C32_WrittenOnce ==
    \A i, j \in 1..Len(hist.written) :
       i # j => hist.written[i] # hist.written[j]

\* C33: in every persisted checkpoint document, every key of a project's
\* processed list has its record in the output already, also when
\* scrape_project of an earlier project raised with records in its batch
\* and a later project persisted the store.
C33_PersistedKeysWritten ==
    \A p \in ProjSet :
       get_processed_issues(Persisted, p) \subseteq Range(output)

\* C34: a reset is durable: once the process given --reset-project P has
\* handled the flag and exited, the checkpoint the next invocation loads
\* has no progress entry and no processed keys for P, so that P would be
\* scraped again from cursor 0.
C34_ResetDurable ==
    (pc = "exited" /\ args.reset_project # "None")
    => /\ args.reset_project \notin DOMAIN load_state(disk).projects
       /\ get_processed_issues(load_state(disk), args.reset_project) = {}
       /\ progress_start_at(load_state(disk), args.reset_project) = 0

\* The number of records with key k among the records q.
C35_Count(q, k) == Cardinality({i \in 1..Len(q) : q[i] = k})

\* C35: completeness against a tracker whose issue list does not change.
\* When scrape_project returns after its pagination loop and no page
\* request was abandoned, every issue of the project at an offset from the
\* starting cursor up to the total whose transform succeeds is in the
\* processed list of the project; the call has appended exactly one record
\* for it, or none if its key was in the processed set at the start; and
\* the value returned is the number of records the call appended.
C35_Complete ==
    [][(C25_ReturnsAfterLoop /\ Project \notin hist'.failed)
       => /\ \A i \in (loc.start_at + 1)..loc.total_issues :
               LET k == Remote(Project)[i] IN
                 TransformOk(k) =>
                   /\ k \in get_processed_issues(state', Project)
                   /\ C35_Count(hist'.written, k) =
                        IF k \in loc.processed_issues THEN 0 ELSE 1
          /\ loc.total_issues = NumIssues(Project)
          /\ stats'.projects[Project] =
               [issues_scraped |-> Len(hist'.written), success |-> TRUE]
          /\ Range(hist'.written) \subseteq Range(output')
      ]_vars
C35_Witness ==
    /\ pc = "finished"
    /\ run = 2
    /\ nofields = {Key("A", 2)}
    /\ hist.failed = {}
    /\ stats.projects["A"] = [issues_scraped |-> 1, success |-> TRUE]
    /\ get_processed_issues(state, "A") = {Key("A", 1), Key("A", 3)}
    /\ C35_Count(output, Key("A", 1)) = 1
    /\ C35_Count(output, Key("A", 3)) = 1
====
